---------------------------- MODULE Spec2Model ----------------------------
(***************************************************************************)
(* A model of roadsafe_app.py: the Streamlit script that loads the         *)
(* accident table once (load_data, cached), derives Visibility_Level and   *)
(* Road_Condition, and on every rerun recomputes the filtered table from   *)
(* the sidebar controls.                                                   *)
(*                                                                         *)
(* Encoding of pandas values.  A cell of a nullable column is a sequence:  *)
(* <<>> is the missing value (NaN / NaT / None) and <<v>> holds v.  The    *)
(* cells of the optional columns are written as the text Python shows for  *)
(* them, because one column can hold booleans, numbers and strings at      *)
(* once: a flag cell is one of FlagVals, a Visibility(mi) cell is the text *)
(* read from the file.  A table is a set of rows, each carrying its index  *)
(* label idx, so equal rows at different positions stay distinct.          *)
(***************************************************************************)
EXTENDS Integers, FiniteSets, Sequences, TLC

VARIABLES
    raw,                  \* the file read at line 13: [cols, rows]
    cache,                \* st.cache_data's entry for load_data: <<>> or <<table>>
    df,                   \* line 51
    page,                 \* line 55
    selected_states,      \* line 72
    selected_weather,     \* line 82
    selected_severity,    \* line 92
    selected_visibility,  \* line 102
    selected_road,        \* line 112
    selected_date_range,  \* line 121
    start_date,           \* lines 58, 130
    end_date,             \* lines 59, 130
    filtered_df,          \* lines 60, 149
    options,              \* the option lists of lines 71, 81, 91, 101, 111
    raised,               \* the run ended in an uncaught exception
    view,                 \* what the run rendered: KPIs and chart tables
    pc                    \* "start" before the first run, "idle" between runs

vars == <<raw, cache, df, page, selected_states, selected_weather,
          selected_severity, selected_visibility, selected_road,
          selected_date_range, start_date, end_date, filtered_df, options,
          raised, view, pc>>

-----------------------------------------------------------------------------
(* Bounds of the model. *)

\* Largest number of rows of a file in the loading specification.
MaxRawRows == 2

\* Largest number of rows of a file in the dashboard specification.
MaxRows == 2

Null == <<>>

Min(S) == CHOOSE x \in S : \A y \in S : x <= y
Max(S) == CHOOSE x \in S : \A y \in S : x >= y

-----------------------------------------------------------------------------
(* The file.  Required columns are always there (line 15 and line 44 would *)
(* fail at start-up without them); Visibility(mi) and the four flag        *)
(* columns are optional, which is what lines 21 and 31-37 test.            *)

FlagColumns == <<"Junction", "Crossing", "Roundabout", "Bump">>

OptionalColumns == {"Visibility(mi)", "Junction", "Crossing", "Roundabout", "Bump"}

\* What a flag cell can hold after read_csv: a boolean, the number 1 or 0
\* (integer or float column), a string, or nothing.
FlagVals == {"True", "False", "1", "0", "1.0", "'True'", "nan"}

\* Python's  x == True : True equals True, and the numbers 1 and 1.0 equal
\* True as well (bool is a subclass of int); a string or NaN does not.
EqTrueLoose(x) == x \in {"True", "1", "1.0", "'True'"}
EqTrue(x) == x \in {"True", "1", "1.0"}

\* The numbers the Visibility(mi) texts of the model denote.
Numerals == [t \in {"10", "5", "3"} |-> CASE t = "10" -> 10 [] t = "5" -> 5 [] t = "3" -> 3]

\* pd.to_numeric(..., errors='coerce') on one cell: text that is a number
\* becomes that number, anything else (empty, non-numeric) becomes NaN.
to_numeric(t) == IF t \in DOMAIN Numerals THEN <<Numerals[t]>> ELSE Null

\* pd.to_datetime(..., errors='coerce') on one cell: a parseable timestamp
\* keeps its date and hour, anything else becomes NaT.
to_datetime(s) == IF s.ok THEN <<[date |-> s.date, hour |-> s.hour]>> ELSE Null

\* .dt.date and .dt.hour: NaT stays missing.
dt_date(ts) == IF ts = Null THEN Null ELSE <<ts[1].date>>
dt_hour(ts) == IF ts = Null THEN Null ELSE <<ts[1].hour>>

\* A variant of visibility_level whose threshold test is strict.
visibility_level_strict(cols, r) ==
    IF "Visibility(mi)" \in cols
    THEN LET x == to_numeric(r.Vis)
         IN IF x # Null /\ x[1] > 5 THEN "Clear" ELSE "Unclear"
    ELSE "Unknown"

\* Lines 21-27.
visibility_level(cols, r) ==
    IF "Visibility(mi)" \in cols
    THEN LET x == to_numeric(r.Vis)
         IN IF x # Null /\ x[1] >= 5 THEN "Clear" ELSE "Unclear"
    ELSE "Unknown"

\* row.get(name): the cell, or None when the row has no such column.
row_get(cols, r, name) == IF name \in cols THEN r[name] ELSE "None"

\* A variant of flag_set that accepts every truthy value.
flag_set_truthy(cols, r, name) == name \in cols /\ EqTrueLoose(row_get(cols, r, name))

\* One test of lines 31-37:  name in df.columns and row.get(name) == True.
flag_set(cols, r, name) == name \in cols /\ EqTrue(row_get(cols, r, name))

\* A variant of road_condition that tests Crossing before Junction.
road_condition_swapped(cols, r) ==
    IF flag_set(cols, r, "Crossing") THEN "Crossing"
    ELSE IF flag_set(cols, r, "Junction") THEN "Junction"
    ELSE IF flag_set(cols, r, "Roundabout") THEN "Roundabout"
    ELSE IF flag_set(cols, r, "Bump") THEN "Bump"
    ELSE "Straight Road"

\* Lines 30-40.
road_condition(cols, r) ==
    IF flag_set(cols, r, "Junction") THEN "Junction"
    ELSE IF flag_set(cols, r, "Crossing") THEN "Crossing"
    ELSE IF flag_set(cols, r, "Roundabout") THEN "Roundabout"
    ELSE IF flag_set(cols, r, "Bump") THEN "Bump"
    ELSE "Straight Road"

\* Lines 15-42 on the row at index i: the derived columns are appended and
\* the columns read later are kept.  Weekday (line 18) is read nowhere and
\* is left out.
derive(cols, r, i) ==
    LET ts == to_datetime(r.Start_Time)
    IN [idx |-> i,
        Start_Lat |-> r.Start_Lat, Start_Lng |-> r.Start_Lng,
        Severity |-> r.Severity, State |-> r.State,
        Weather_Condition |-> r.Weather_Condition,
        Date |-> dt_date(ts), Hour |-> dt_hour(ts),
        Visibility_Level |-> visibility_level(cols, r),
        Road_Condition |-> road_condition(cols, r)]

\* A variant of dropna whose subset lacks 'Date'.
dropna_no_date(t) ==
    {r \in t : /\ r.Start_Lat # Null /\ r.Start_Lng # Null
               /\ r.Severity # Null /\ r.State # Null
               /\ r.Weather_Condition # Null}

\* Lines 44-47.
dropna(t) ==
    {r \in t : /\ r.Start_Lat # Null /\ r.Start_Lng # Null
               /\ r.Severity # Null /\ r.State # Null
               /\ r.Weather_Condition # Null /\ r.Date # Null}

\* Lines 11-49.
load_data(file) ==
    dropna({derive(file.cols, file.rows[i], i) : i \in DOMAIN file.rows})

\* Line 10: st.cache_data runs load_data on the first call only.
cached_load_data(c, file) == IF c = Null THEN load_data(file) ELSE c[1]

-----------------------------------------------------------------------------
(* The controls of the sidebar. *)

\* Line 71 (only set(states) is ever used, so the sort is not modelled).
states(d) == {r.State : r \in d}

\* Line 81.
weather_options(d) == {r.Weather_Condition : r \in d} \ {Null}

\* Line 91.
severity_levels(d) == {r.Severity : r \in d}

\* A variant of visibility_options that lists the values found in the table.
visibility_options_observed(d) == {r.Visibility_Level : r \in d}

\* Line 101: a fixed list, whatever the table holds.
visibility_options(d) == {"Clear", "Unclear"}

\* Line 111.
road_options(d) == {r.Road_Condition : r \in d}

\* Lines 71-111: the five lists, each computed from df.
options_of(d) ==
    [states |-> states(d), weather |-> weather_options(d),
     severity |-> severity_levels(d), visibility |-> visibility_options(d),
     road |-> road_options(d)]

\* On the Home page lines 65-149 do not run and the lists do not exist.
no_options ==
    [states |-> {}, weather |-> {}, severity |-> {}, visibility |-> {}, road |-> {}]

Dates(d) == {r.Date[1] : r \in {x \in d : x.Date # Null}}

\* Lines 58-59: min() and max() skip missing values and give NaN on an
\* empty column.
date_min(d) == IF Dates(d) = {} THEN Null ELSE <<Min(Dates(d))>>
date_max(d) == IF Dates(d) = {} THEN Null ELSE <<Max(Dates(d))>>

\* What st.date_input returns is a tuple (isinstance at line 129) or a
\* plain date; dates holds its elements.
DateTuple(s) == [tuple |-> TRUE, dates |-> s]
LoneDate(x) == [tuple |-> FALSE, dates |-> <<x>>]

\* Lines 72-126: what each widget returns the first time it is rendered.
default_controls(d) ==
    [states |-> states(d), weather |-> weather_options(d),
     severity |-> severity_levels(d), visibility |-> visibility_options(d),
     road |-> road_options(d),
     date_range |-> DateTuple(date_min(d) \o date_max(d))]

\* Lines 121-126: the values the date picker can return.  It is bounded by
\* the first and last date of the table; in range mode it returns a tuple
\* of the dates picked so far (none, the start only, or start and end),
\* and line 129 also provides for a value that is no tuple.
date_inputs(d) ==
    LET D == IF Dates(d) = {} THEN {} ELSE Min(Dates(d)) .. Max(Dates(d))
    IN {DateTuple(p) : p \in {q \in D \X D : q[1] <= q[2]}}
       \cup {DateTuple(<<a>>) : a \in D}
       \cup {DateTuple(<<>>)}
       \cup {LoneDate(a) : a \in D}

-----------------------------------------------------------------------------
(* The filter, lines 129-149. *)

\* Comparison of a Date cell with a bound; a missing value compares false.
ge(a, b) == a # Null /\ b # Null /\ a[1] >= b[1]
le(a, b) == a # Null /\ b # Null /\ a[1] <= b[1]

\* A variant of date_mask that leaves the end date out.
date_mask_open(d, s, e) == {r \in d : ge(r.Date, s) /\ le(r.Date, e) /\ r.Date # e}

\* Line 132.
date_mask(d, s, e) == {r \in d : ge(r.Date, s) /\ le(r.Date, e)}

\* Series.isin: a missing cell is in no selection, since the widgets never
\* offer it.
isin(d, col, selected) == {r \in d : r[col] \in selected}

\* One of the five steps of lines 134-147:
\*   if set(selected) != set(offered): mask &= df[col].isin(selected)
refine(mask, d, col, selected, offered) ==
    IF selected # offered THEN mask \cap isin(d, col, selected) ELSE mask

\* Lines 132-147: the rows mask selects.
smart_mask(d, c, opts, s, e) ==
    LET m0 == date_mask(d, s, e)
        m1 == refine(m0, d, "State", c.states, opts.states)
        m2 == refine(m1, d, "Weather_Condition", c.weather, opts.weather)
        m3 == refine(m2, d, "Severity", c.severity, opts.severity)
        m4 == refine(m3, d, "Visibility_Level", c.visibility, opts.visibility)
    IN refine(m4, d, "Road_Condition", c.road, opts.road)

\* A variant of smart_filter in which a pair of equal dates skips the
\* date test.
smart_filter_single_skips(d, c, opts) ==
    LET dr == c.date_range
        base == [start_date |-> date_min(d), end_date |-> date_max(d),
                 filtered_df |-> d, raised |-> FALSE]
    IN IF dr.tuple
       THEN IF Len(dr.dates) # 2
            THEN [base EXCEPT !.raised = TRUE]
            ELSE IF dr.dates[1] = dr.dates[2]
                 THEN [start_date |-> <<dr.dates[1]>>, end_date |-> <<dr.dates[2]>>,
                       filtered_df |-> smart_mask(d, c, opts, date_min(d), date_max(d)),
                       raised |-> FALSE]
                 ELSE [start_date |-> <<dr.dates[1]>>, end_date |-> <<dr.dates[2]>>,
                       filtered_df |-> smart_mask(d, c, opts, <<dr.dates[1]>>, <<dr.dates[2]>>),
                       raised |-> FALSE]
       ELSE base

\* Lines 58-60 and 129-149.  The unpacking at line 130 raises ValueError
\* unless the tuple has exactly two elements; start_date, end_date and
\* filtered_df then still hold the defaults of lines 58-60.  A value that
\* is no tuple skips the whole block.
smart_filter(d, c, opts) ==
    LET dr == c.date_range
        base == [start_date |-> date_min(d), end_date |-> date_max(d),
                 filtered_df |-> d, raised |-> FALSE]
    IN IF dr.tuple
       THEN IF Len(dr.dates) # 2
            THEN [base EXCEPT !.raised = TRUE]
            ELSE [start_date |-> <<dr.dates[1]>>, end_date |-> <<dr.dates[2]>>,
                  filtered_df |-> smart_mask(d, c, opts, <<dr.dates[1]>>, <<dr.dates[2]>>),
                  raised |-> FALSE]
       ELSE base

-----------------------------------------------------------------------------
(* What a run renders. *)

\* Line 266: head(5).
TopN == 5

Count(t, col, v) == Cardinality({r \in t : r[col] = v})

\* Lines 164 and 181-184 (on df), lines 197-200 (on filtered_df).
kpis(t) ==
    [total |-> Cardinality(t), fatal |-> Count(t, "Severity", <<4>>),
     severe |-> Count(t, "Severity", <<3>>), slight |-> Count(t, "Severity", <<2>>)]

\* Line 233: value_counts() leaves missing hours out and has one entry per
\* hour present; sort_index() orders them by hour.
hourly_counts(t) ==
    [h \in {r.Hour[1] : r \in {x \in t : x.Hour # Null}} |-> Count(t, "Hour", <<h>>)]

\* Line 240: one entry per (Hour, Severity) pair present.
sev_hour(t) ==
    [k \in {<<r.Hour[1], r.Severity[1]>> :
                r \in {x \in t : x.Hour # Null /\ x.Severity # Null}} |->
        Cardinality({r \in t : r.Hour = <<k[1]>> /\ r.Severity = <<k[2]>>})]

\* Line 259.
road_counts(t) ==
    [c \in {r.Road_Condition : r \in t} |-> Count(t, "Road_Condition", c)]

\* Line 266: the five most frequent weather labels (all of them when there
\* are fewer); which of several equally frequent labels is kept is not
\* fixed by the code.
weather_counts(t) ==
    LET vals == {r.Weather_Condition[1] : r \in {x \in t : x.Weather_Condition # Null}}
        cnt(w) == Count(t, "Weather_Condition", <<w>>)
        k == IF Cardinality(vals) < TopN THEN Cardinality(vals) ELSE TopN
        top == CHOOSE S \in SUBSET vals :
                   /\ Cardinality(S) = k
                   /\ \A a \in S, b \in vals \ S : cnt(a) >= cnt(b)
    IN [w \in top |-> cnt(w)]

\* Lines 154-184.
home_view(d) ==
    [rendered |-> "Home", kpis |-> kpis(d), hourly |-> <<>>, sev_hour |-> <<>>,
     road |-> <<>>, weather |-> <<>>]

\* Lines 189-290.  The maps and the pie chart (lines 207-222, 280-290)
\* draw the rows of the table, or a random sample of them, as they are.
dashboard_view(t) ==
    [rendered |-> "Dashboard", kpis |-> kpis(t), hourly |-> hourly_counts(t),
     sev_hour |-> sev_hour(t), road |-> road_counts(t),
     weather |-> weather_counts(t)]

\* The exception of line 130 ends the run before anything of lines
\* 151-290 is rendered.
error_view ==
    [rendered |-> "exception", kpis |-> kpis({}), hourly |-> <<>>,
     sev_hour |-> <<>>, road |-> <<>>, weather |-> <<>>]

\* Lines 51-292: one run of the script on table d, with the page chosen at
\* line 55 and the values c the widgets return.
script(d, pg, c) ==
    IF pg = "Dashboard"
    THEN LET opts == options_of(d)
             o == smart_filter(d, c, opts)
         IN [start_date |-> o.start_date, end_date |-> o.end_date,
             filtered_df |-> o.filtered_df, options |-> opts, raised |-> o.raised,
             view |-> IF o.raised THEN error_view ELSE dashboard_view(o.filtered_df)]
    ELSE [start_date |-> date_min(d), end_date |-> date_max(d),
          filtered_df |-> d, options |-> no_options, raised |-> FALSE,
          view |-> home_view(d)]

-----------------------------------------------------------------------------
(* The files the model reads. *)

BaseRow ==
    [Start_Time |-> [ok |-> TRUE, date |-> 1, hour |-> 0],
     Start_Lat |-> <<34>>, Start_Lng |-> <<118>>,
     Severity |-> <<2>>, State |-> <<"CA">>, Weather_Condition |-> <<"Rain">>,
     Vis |-> "10",
     Junction |-> "False", Crossing |-> "False", Roundabout |-> "False",
     Bump |-> "False"]

Unparseable == [ok |-> FALSE, date |-> 0, hour |-> 0]

\* Every combination of boolean flags.
BoolFlagRows ==
    {[BaseRow EXCEPT !.Junction = j, !.Crossing = c, !.Roundabout = ro, !.Bump = b] :
        j \in {"True", "False"}, c \in {"True", "False"},
        ro \in {"True", "False"}, b \in {"True", "False"}}

\* One flag holding something other than a boolean, alone and in front of
\* a later flag that is true.
OddFlagRows ==
    {[BaseRow EXCEPT ![f] = v] :
        f \in {"Junction", "Crossing", "Roundabout", "Bump"},
        v \in {"1", "1.0", "'True'", "nan"}}
    \cup {[BaseRow EXCEPT !.Junction = v, !.Crossing = "True"] :
              v \in {"1", "1.0", "'True'", "nan"}}

\* One required value missing, or a timestamp that does not parse.
NullRows ==
    {[BaseRow EXCEPT ![f] = Null] :
        f \in {"Start_Lat", "Start_Lng", "Severity", "State", "Weather_Condition"}}
    \cup {[BaseRow EXCEPT !.Start_Time = Unparseable]}

\* Visibility at, above and below the threshold, non-numeric, and empty.
VisRows == {[BaseRow EXCEPT !.Vis = v] : v \in {"5", "3", "abc", ""}}

OtherRows ==
    {[BaseRow EXCEPT !.Start_Time = [ok |-> TRUE, date |-> 2, hour |-> 5],
                     !.State = <<"TX">>, !.Severity = <<4>>,
                     !.Weather_Condition = <<"Fair">>]}

LoadRows == BoolFlagRows \cup OddFlagRows \cup NullRows \cup VisRows \cup OtherRows

\* Which optional columns the file has.
LoadCols ==
    {OptionalColumns, OptionalColumns \ {"Visibility(mi)"},
     OptionalColumns \ {"Junction"}, OptionalColumns \ {"Crossing", "Bump"},
     {"Visibility(mi)"}, {}}

RECURSIVE SetToSeq(_)
SetToSeq(S) ==
    IF S = {} THEN <<>>
    ELSE LET x == CHOOSE y \in S : TRUE IN <<x>> \o SetToSeq(S \ {x})

\* The non-empty index sequences of length up to n over 1..m, in
\* non-decreasing order.
Ordered(m, n) ==
    UNION {{s \in [1..k -> 1..m] : \A i \in 1..(k - 1) : s[i] <= s[i + 1]} :
              k \in 1..n}

\* Files of up to n rows taken from rowseq.  Two files that list the same
\* rows in another order load into the same table but for the index
\* labels, so one order is read.
FilesOf(rowseq, colsets, n) ==
    {[cols |-> c, rows |-> [i \in DOMAIN s |-> rowseq[s[i]]]] :
        c \in colsets, s \in Ordered(Len(rowseq), n)}

LoadFiles == FilesOf(SetToSeq(LoadRows), LoadCols, MaxRawRows)

\* The rows of the dashboard specification: between them every filter
\* dimension and the date take two values.
RowA == [BaseRow EXCEPT !.Junction = "True"]
RowB ==
    [BaseRow EXCEPT !.Start_Time = [ok |-> TRUE, date |-> 2, hour |-> 5],
                    !.State = <<"TX">>, !.Vis = "3"]
RowC ==
    [BaseRow EXCEPT !.Severity = <<4>>, !.Weather_Condition = <<"Fair">>]

DashRows == <<RowA, RowB, RowC>>

DashCols == {OptionalColumns, OptionalColumns \ {"Visibility(mi)"}}

DashFiles == FilesOf(DashRows, DashCols, MaxRows)

-----------------------------------------------------------------------------
(* The runs. *)

controls ==
    [states |-> selected_states, weather |-> selected_weather,
     severity |-> selected_severity, visibility |-> selected_visibility,
     road |-> selected_road, date_range |-> selected_date_range]

Toggle(S, v) == IF v \in S THEN S \ {v} ELSE S \cup {v}

\* A variant of Rerun that filters the table left by the run before
\* instead of the cached one, as  df = df[mask]  on a shared table would.
RerunShared(pg, c) ==
    LET d == IF cache = Null THEN load_data(raw) ELSE filtered_df
        o == script(d, pg, c)
    IN /\ cache' = <<d>>
       /\ df' = d
       /\ page' = pg
       /\ selected_states' = c.states
       /\ selected_weather' = c.weather
       /\ selected_severity' = c.severity
       /\ selected_visibility' = c.visibility
       /\ selected_road' = c.road
       /\ selected_date_range' = c.date_range
       /\ start_date' = o.start_date
       /\ end_date' = o.end_date
       /\ filtered_df' = o.filtered_df
       /\ options' = o.options
       /\ raised' = o.raised
       /\ view' = o.view
       /\ pc' = "idle"
       /\ raw' = raw

\* One run of the whole script, top to bottom, which is what Streamlit does
\* on start-up and after every interaction.
Rerun(pg, c) ==
    LET d == cached_load_data(cache, raw)
        o == script(d, pg, c)
    IN /\ cache' = <<d>>
       /\ df' = d
       /\ page' = pg
       /\ selected_states' = c.states
       /\ selected_weather' = c.weather
       /\ selected_severity' = c.severity
       /\ selected_visibility' = c.visibility
       /\ selected_road' = c.road
       /\ selected_date_range' = c.date_range
       /\ start_date' = o.start_date
       /\ end_date' = o.end_date
       /\ filtered_df' = o.filtered_df
       /\ options' = o.options
       /\ raised' = o.raised
       /\ view' = o.view
       /\ pc' = "idle"
       /\ raw' = raw

\* The first run: the radio of line 55 shows its first option, Home.  The
\* dashboard's widgets are not rendered; the selected_* variables hold what
\* they will return when they are.
FirstRun ==
    /\ pc = "start"
    /\ Rerun("Home", default_controls(load_data(raw)))

\* The user picks Dashboard at line 55.  The date picker takes the first
\* and last date of the table as its value and bounds, so the table has a
\* row.  Widgets rendered for the first time return their defaults.
GoDashboard ==
    /\ pc = "idle"
    /\ page = "Home"
    /\ df # {}
    /\ Rerun("Dashboard", default_controls(df))

\* The user picks Home: the dashboard's widgets are no longer rendered and
\* Streamlit forgets their values.
GoHome ==
    /\ pc = "idle"
    /\ page = "Dashboard"
    /\ Rerun("Home", default_controls(df))

ToggleState(v) ==
    /\ pc = "idle" /\ page = "Dashboard"
    /\ Rerun("Dashboard", [controls EXCEPT !.states = Toggle(selected_states, v)])

ToggleWeather(v) ==
    /\ pc = "idle" /\ page = "Dashboard"
    /\ Rerun("Dashboard", [controls EXCEPT !.weather = Toggle(selected_weather, v)])

ToggleSeverity(v) ==
    /\ pc = "idle" /\ page = "Dashboard"
    /\ Rerun("Dashboard", [controls EXCEPT !.severity = Toggle(selected_severity, v)])

ToggleVisibility(v) ==
    /\ pc = "idle" /\ page = "Dashboard"
    /\ Rerun("Dashboard", [controls EXCEPT !.visibility = Toggle(selected_visibility, v)])

ToggleRoad(v) ==
    /\ pc = "idle" /\ page = "Dashboard"
    /\ Rerun("Dashboard", [controls EXCEPT !.road = Toggle(selected_road, v)])

PickDates(dr) ==
    /\ pc = "idle" /\ page = "Dashboard"
    /\ dr # selected_date_range
    /\ Rerun("Dashboard", [controls EXCEPT !.date_range = dr])

InitWith(files) ==
    /\ raw \in files
    /\ cache = Null
    /\ df = {}
    /\ page = "Home"
    /\ selected_states = {}
    /\ selected_weather = {}
    /\ selected_severity = {}
    /\ selected_visibility = {}
    /\ selected_road = {}
    /\ selected_date_range = DateTuple(<<>>)
    /\ start_date = Null
    /\ end_date = Null
    /\ filtered_df = {}
    /\ options = no_options
    /\ raised = FALSE
    /\ view = error_view
    /\ pc = "start"

Init == InitWith(DashFiles)

Next ==
    \/ FirstRun
    \/ GoDashboard
    \/ GoHome
    \/ \E v \in states(df) : ToggleState(v)
    \/ \E v \in weather_options(df) : ToggleWeather(v)
    \/ \E v \in severity_levels(df) : ToggleSeverity(v)
    \/ \E v \in visibility_options(df) : ToggleVisibility(v)
    \/ \E v \in road_options(df) : ToggleRoad(v)
    \/ \E dr \in date_inputs(df) : PickDates(dr)

Spec == Init /\ [][Next]_vars

\* Loading and deriving, on files with missing values, odd flag cells and
\* missing columns; the dashboard is opened with its default selections.
InitLoad == InitWith(LoadFiles)

NextLoad == FirstRun \/ GoDashboard \/ GoHome

SpecLoad == InitLoad /\ [][NextLoad]_vars

-----------------------------------------------------------------------------
(* Properties of loading and deriving, checked under SpecLoad. *)

RECURSIVE SumOver(_, _)
SumOver(f, D) ==
    IF D = {} THEN 0
    ELSE LET x == CHOOSE y \in D : TRUE IN f[x] + SumOver(f, D \ {x})

\* The sum of the counts of a chart table.
Total(f) == SumOver(f, DOMAIN f)

\* The row of the file a table row comes from.
RawOf(r) == raw.rows[r.idx]

\* The index labels of the rows of the file that lack a required value or
\* whose Start_Time does not parse.
Incomplete ==
    {i \in DOMAIN raw.rows :
        \/ raw.rows[i].Start_Lat = Null \/ raw.rows[i].Start_Lng = Null
        \/ raw.rows[i].Severity = Null \/ raw.rows[i].State = Null
        \/ raw.rows[i].Weather_Condition = Null
        \/ ~raw.rows[i].Start_Time.ok}

\* C5: every row of the table load_data returns has latitude, longitude,
\* severity, state, weather condition and date; a row of the file that
\* lacks one of them, or whose Start_Time does not parse, is in neither the
\* canonical nor the filtered table, and the total and every chart table
\* count the rows of the filtered table and nothing else.
C5_RetainedRowsComplete ==
    pc = "idle" =>
        /\ \A r \in df :
              /\ r.Start_Lat # Null /\ r.Start_Lng # Null /\ r.Severity # Null
              /\ r.State # Null /\ r.Weather_Condition # Null /\ r.Date # Null
        /\ \A r \in df \cup filtered_df : r.idx \notin Incomplete
        /\ {r.idx : r \in df} = DOMAIN raw.rows \ Incomplete
        /\ view.kpis.total = Cardinality(DOMAIN raw.rows \ Incomplete)
        /\ page = "Dashboard" =>
              /\ Total(view.hourly) = Cardinality(filtered_df)
              /\ Total(view.sev_hour) = Cardinality(filtered_df)
              /\ Total(view.road) = Cardinality(filtered_df)
              /\ Total(view.weather) = Cardinality(filtered_df)

\* A file with a complete row and a row whose Start_Time does not parse,
\* loaded and shown on the dashboard.
C5_Witness ==
    /\ pc = "idle" /\ page = "Dashboard"
    /\ Cardinality(df) = 1
    /\ \E i \in DOMAIN raw.rows :
          /\ ~raw.rows[i].Start_Time.ok
          /\ i \notin {r.idx : r \in filtered_df}
    /\ view.kpis.total = 1

\* The values of a flag cell that compare equal to True at lines 31-37.
SetCells == {"True", "1", "1.0"}

\* The flags of a row of the file that are set, as positions of
\* FlagColumns: the column exists and the cell compares equal to True.
SetFlags(row) ==
    {k \in DOMAIN FlagColumns :
        FlagColumns[k] \in raw.cols /\ row[FlagColumns[k]] \in SetCells}

\* C6: Road_Condition of every row is one of the five categories, is the
\* first set flag in the order Junction, Crossing, Roundabout, Bump, and is
\* Straight Road when no flag is set; a flag whose column the file lacks is
\* set for no row.
C6_RoadConditionPriority ==
    pc = "idle" =>
        \A r \in df :
            /\ r.Road_Condition \in
                  {"Junction", "Crossing", "Roundabout", "Bump", "Straight Road"}
            /\ r.Road_Condition =
                  IF SetFlags(RawOf(r)) = {} THEN "Straight Road"
                  ELSE FlagColumns[Min(SetFlags(RawOf(r)))]
            /\ \A k \in DOMAIN FlagColumns :
                  FlagColumns[k] \notin raw.cols => r.Road_Condition # FlagColumns[k]

\* A row with Junction and Crossing both true, in a file that has both
\* columns, is a Junction.
C6_Witness ==
    /\ pc = "idle"
    /\ \E r \in df :
          /\ "Junction" \in raw.cols /\ "Crossing" \in raw.cols
          /\ RawOf(r).Junction = "True" /\ RawOf(r).Crossing = "True"
          /\ r.Road_Condition = "Junction"

\* C7, as claimed: a flag cell holding the number 1 or 1.0 or the string
\* "True" never selects that flag's category.
C7_OnlyLiteralTrue ==
    pc = "idle" =>
        \A r \in df : \A k \in DOMAIN FlagColumns :
            (FlagColumns[k] \in raw.cols
                    /\ RawOf(r)[FlagColumns[k]] \in {"1", "1.0", "'True'"})
                => r.Road_Condition # FlagColumns[k]

\* C7, amended: a flag is set exactly when its cell compares equal to
\* True.  The string "True" and a missing value never select the flag's
\* category; the boolean true and the numbers 1 and 1.0 select it unless
\* an earlier flag is set.
C7_EqualsTrue ==
    pc = "idle" =>
        \A r \in df : \A k \in DOMAIN FlagColumns :
            LET cell == RawOf(r)[FlagColumns[k]]
                earlier == {j \in SetFlags(RawOf(r)) : j < k}
            IN /\ cell \in {"'True'", "nan", "False", "0"}
                    => r.Road_Condition # FlagColumns[k]
               /\ (FlagColumns[k] \in raw.cols /\ cell \in {"True", "1", "1.0"}
                        /\ earlier = {})
                    => r.Road_Condition = FlagColumns[k]

\* A row whose Bump cell is the number 1.0 is a Bump, and a row whose
\* Junction cell is the string "True" is a straight road.
C7_Witness ==
    /\ pc = "idle"
    /\ \E r \in df : RawOf(r).Bump = "1.0" /\ r.Road_Condition = "Bump"
    /\ \E r \in df : /\ RawOf(r).Junction = "'True'" /\ "Junction" \in raw.cols
                     /\ r.Road_Condition = "Straight Road"

\* C8: Visibility_Level is Unknown exactly when the file has no
\* Visibility(mi) column; with the column, a row is Clear when its cell is
\* a number of at least 5 and Unclear otherwise (below 5, empty, not a
\* number).
C8_VisibilityLevel ==
    pc = "idle" =>
        \A r \in df :
            LET cell == RawOf(r).Vis
                atLeast5 == cell \in {"5", "10"}
            IN /\ r.Visibility_Level = "Unknown" <=> "Visibility(mi)" \notin raw.cols
               /\ "Visibility(mi)" \in raw.cols =>
                     r.Visibility_Level = IF atLeast5 THEN "Clear" ELSE "Unclear"

\* With the column present, a row at the threshold is Clear and a row with
\* an empty cell is Unclear.
C8_Witness ==
    /\ pc = "idle" /\ "Visibility(mi)" \in raw.cols
    /\ \E r \in df : RawOf(r).Vis = "5" /\ r.Visibility_Level = "Clear"
    /\ \E r \in df : RawOf(r).Vis = "" /\ r.Visibility_Level = "Unclear"

-----------------------------------------------------------------------------
(* Properties of the dashboard, checked under Spec. *)

OnDashboard == pc = "idle" /\ page = "Dashboard"

\* The date picker returned a start and an end.
IsPair == selected_date_range.tuple /\ Len(selected_date_range.dates) = 2

PickedStart == selected_date_range.dates[1]
PickedEnd == selected_date_range.dates[2]

InRange(r) == r.Date # Null /\ PickedStart <= r.Date[1] /\ r.Date[1] <= PickedEnd

\* The distinct values of each dimension in the canonical table.
ObservedUniverse ==
    [states |-> {r.State : r \in df},
     weather |-> {r.Weather_Condition : r \in df},
     severity |-> {r.Severity : r \in df},
     visibility |-> {r.Visibility_Level : r \in df},
     road |-> {r.Road_Condition : r \in df}]

\* The same, but for Visibility_Level the two values the widget offers.
OfferedUniverse == [ObservedUniverse EXCEPT !.visibility = {"Clear", "Unclear"}]

\* Row r meets every dimension: the selection is the whole of U's set for
\* the dimension, or holds r's value.
Passes(r, U) ==
    /\ selected_states = U.states \/ r.State \in selected_states
    /\ selected_weather = U.weather \/ r.Weather_Condition \in selected_weather
    /\ selected_severity = U.severity \/ r.Severity \in selected_severity
    /\ selected_visibility = U.visibility \/ r.Visibility_Level \in selected_visibility
    /\ selected_road = U.road \/ r.Road_Condition \in selected_road

\* C1, as claimed: with a start and an end picked, the filtered table is
\* the rows of the canonical table dated from start to end inclusive that
\* meet every dimension, a dimension being met when its selection equals
\* the distinct values observed in the canonical table.
C1_ObservedUniverse ==
    (OnDashboard /\ IsPair) =>
        filtered_df = {r \in df : InRange(r) /\ Passes(r, ObservedUniverse)}

\* C1, amended: the same with the list the widget offers in place of the
\* observed values, which differs for Visibility_Level only.
C1_FilteredTable ==
    (OnDashboard /\ IsPair) =>
        filtered_df = {r \in df : InRange(r) /\ Passes(r, OfferedUniverse)}

\* A range and a partial selection of states that keep some rows, one of
\* them dated on the end date, and leave others out.
C1_Witness ==
    /\ OnDashboard /\ IsPair
    /\ selected_states # {} /\ selected_states # options.states
    /\ filtered_df # {} /\ filtered_df # df
    /\ \E r \in filtered_df : r.Date = <<PickedEnd>>

\* The date picker holds one date: start and end equal, or a plain date.
SingleDate == (IsPair /\ PickedStart = PickedEnd) \/ ~selected_date_range.tuple

\* C2, as claimed: with a single date the filtered table is the rows of
\* the canonical table that meet the five dimensions, whatever their date.
C2_SingleDateSkipsDates ==
    (OnDashboard /\ SingleDate) =>
        filtered_df = {r \in df : Passes(r, OfferedUniverse)}

\* C2, amended: a start and an end that are equal keep the rows of that
\* date that meet the five dimensions; a value that is no tuple leaves the
\* whole canonical table, and the five selections are not applied.
C2_SingleDate ==
    OnDashboard =>
        /\ (IsPair /\ PickedStart = PickedEnd) =>
              filtered_df =
                  {r \in df : r.Date = <<PickedStart>> /\ Passes(r, OfferedUniverse)}
        /\ ~selected_date_range.tuple => filtered_df = df

\* Start and end are the same date, and a row of another date that meets
\* the five dimensions is left out.
C2_Witness ==
    /\ OnDashboard /\ IsPair /\ PickedStart = PickedEnd
    /\ filtered_df # {}
    /\ \E r \in df \ filtered_df : Passes(r, OfferedUniverse)

\* C3: on the dashboard, when the selection of one of the five dimensions
\* is empty the filtered table has no rows.
C3_EmptySelectionNoRows ==
    (OnDashboard /\ {} \in {selected_states, selected_weather, selected_severity,
                            selected_visibility, selected_road})
        => filtered_df = {}

\* C4: no run raises, and every run on the dashboard gets to render the
\* dashboard from the filtered table.
C4_NeverRaises ==
    pc = "idle" =>
        /\ ~raised
        /\ page = "Dashboard" => view = dashboard_view(filtered_df)

\* C9, as claimed: each of the five lists a selection is compared with is
\* the set of distinct values observed in the canonical table.
C9_ListsAreObserved == OnDashboard => options = ObservedUniverse

\* C9, amended: the lists of State, Weather_Condition, Severity and
\* Road_Condition are the distinct values of the canonical table, whatever
\* the filtered table holds; the list of Visibility_Level is Clear and
\* Unclear whatever the table holds.
C9_Lists == OnDashboard => options = OfferedUniverse

\* The filtered table has lost a state and the list of states has not; the
\* canonical table has one visibility level and the list has two.
C9_Witness ==
    /\ OnDashboard /\ ~raised
    /\ {r.State : r \in filtered_df} # options.states
    /\ filtered_df # {}
    /\ options.states = {r.State : r \in df}
    /\ {r.Visibility_Level : r \in df} # options.visibility

\* The table a run leaves in filtered_df, from the canonical table, the
\* page and the values of the controls alone.
ExpectedTable ==
    IF page = "Dashboard" /\ IsPair
    THEN {r \in df : InRange(r) /\ Passes(r, OfferedUniverse)}
    ELSE df

\* C10: once built the canonical table never changes, and after every run
\* the filtered table is the one the canonical table, the page and the
\* current values of the controls give, whatever runs came before.
C10_Stable ==
    /\ [][pc = "idle" => df' = df /\ cache' = cache]_vars
    /\ [](pc = "idle" => df = load_data(raw) /\ filtered_df = ExpectedTable)

\* Some runs later: a selection and a range other than the defaults, and
\* a filtered table smaller than the canonical one.
C10_Witness ==
    /\ OnDashboard /\ IsPair
    /\ selected_severity # options.severity
    /\ selected_date_range # DateTuple(date_min(df) \o date_max(df))
    /\ filtered_df # {} /\ filtered_df # df
    /\ df = load_data(raw)

=============================================================================
